---- MODULE Spec2Model ----
(***************************************************************************)
(* The Cursed Forest (src/game2.py): the Streamlit session state of the    *)
(* adventure (game_state, conversation_history, messages) and the widget   *)
(* events that main() handles in one script run.                           *)
(*                                                                         *)
(* A text is a sequence of atoms (words, blanks, the "**" marker, word     *)
(* suffixes); str.lower() maps atoms, and the `in` operator of Python on   *)
(* strings is contiguous-subsequence containment.                          *)
(***************************************************************************)
EXTENDS Integers, Sequences, FiniteSets, TLC

VARIABLES game_state, conversation_history, messages, ev, sent

vars == <<game_state, conversation_history, messages, ev, sent>>

\* Bounds of the model.
MaxTurns == 3      \* player actions submitted between two restarts

None == "None"

Max(a, b) == IF a >= b THEN a ELSE b
Min(a, b) == IF a <= b THEN a ELSE b

-----------------------------------------------------------------------------
\* Texts

\* str.lower() on one atom
LowerAtom(a) ==
    CASE a = "Fight" -> "fight"
      [] a = "Explore" -> "explore"
      [] a = "Trap" -> "trap"
      [] a = "Sword" -> "sword"
      [] a = "Health" -> "health"
      [] a = "Potion" -> "potion"
      [] a = "Something" -> "something"
      [] a = "Please" -> "please"
      [] OTHER -> a

\* response_text.lower()
Lower(text) == [i \in 1..Len(text) |-> LowerAtom(text[i])]

\* needle in hay (Python substring test)
Contains(needle, hay) ==
    \E i \in 0..(Len(hay) - Len(needle)) :
        SubSeq(hay, i + 1, i + Len(needle)) = needle

\* the list dangerous_actions, in its order
dangerous_actions ==
    << <<"fight">>, <<"confront">>, <<"explore">>, <<"approach">>, <<"follow">>,
       <<"ignore", " ", "warning">>, <<"trap">>, <<"venture", " ", "deeper">> >>

\* the keys of the dict inventory_items, in insertion order
inventory_items ==
    <<"potion", "sword", "key", "map", "shield", "amulet", "health_potion">>

\* the characters of an item identifier, as atoms
ItemAtoms(item) ==
    IF item = "health_potion" THEN <<"health", "_", "potion">> ELSE <<item>>

\* f"**{item}**"
Marked(item) == <<"**">> \o ItemAtoms(item) \o <<"**">>

\* a fallback wording that names a danger
FallbackTextWithKeyword ==
    <<"Something", " ", "went", " ", "wrong", " ", "in", " ", "the", " ",
      "trap", "...", " ", "Please", " ", "try", " ", "again", ".">>

\* the text generate_story_response returns when the generator raises
FallbackText ==
    <<"Something", " ", "went", " ", "wrong", " ", "in", " ", "the", " ",
      "forest", "...", " ", "Please", " ", "try", " ", "again", ".">>

\* the introduction main() appends to an empty history
IntroText == <<"Welcome, brave soul!", " ", "What would you like to do?">>

intro_message == [role |-> "model", text |-> IntroText]

\* What response.text can be when the generator answers.
Responses ==
    { \* near misses only: a broken phrase, an unmarked item, the display spelling
      <<"ignore", " ", "the", " ", "warning", " ", "key", " ",
        "**", "health", " ", "potion", "**">>,
      \* one keyword, inside a longer word and once more, and one marked item
      <<"Explore", "d", " ", "explore", " ", "**", "potion", "**">>,
      \* two keywords
      <<"Fight", " ", "Trap">>,
      \* all eight keywords
      <<"fight", " ", "confront", " ", "explore", " ", "approach", " ", "follow",
        " ", "ignore", " ", "warning", " ", "trap", " ", "venture", " ", "deeper">>,
      \* three marked items; in the catalog the order is sword, key, map
      <<"**", "key", "**", " ", "**", "map", "**", " ", "**", "Sword", "**">>,
      \* the marked health potion
      <<"**", "Health", "_", "Potion", "**">> }

\* what the player can type into the chat input (non-empty)
PlayerTexts ==
    { <<"explore", " ", "path">>,
      <<"Fight", " ", "**", "sword", "**">> }

-----------------------------------------------------------------------------
\* Functions of game2.py

InList(x, list) == \E i \in 1..Len(list) : list[i] = x

\* list.remove(x): removes the first occurrence
RemoveFirst(list, x) ==
    LET i == CHOOSE k \in 1..Len(list) :
                 list[k] = x /\ \A j \in 1..(k - 1) : list[j] # x
    IN  SubSeq(list, 1, i - 1) \o SubSeq(list, i + 1, Len(list))

\* the initial game_state of initialize_session_state
InitialGameState ==
    [health |-> 100, inventory |-> <<>>, choices_made |-> 0, found_item |-> None]

\* number of occurrences of needle in hay
Occurrences(needle, hay) ==
    Cardinality({i \in 0..(Len(hay) - Len(needle)) :
                    SubSeq(hay, i + 1, i + Len(needle)) = needle})

\* DangerLoop with one decrement per occurrence of a keyword
RECURSIVE DangerLoopPerOccurrence(_, _, _)
DangerLoopPerOccurrence(h, lowered, i) ==
    IF i > Len(dangerous_actions) THEN h
    ELSE DangerLoopPerOccurrence(
             h - 15 * Occurrences(dangerous_actions[i], lowered), lowered, i + 1)

\* DangerLoop without the containment test: every keyword costs 15
RECURSIVE DangerLoopUntested(_, _, _)
DangerLoopUntested(h, lowered, i) ==
    IF i > Len(dangerous_actions) THEN h
    ELSE DangerLoopUntested(h - 15, lowered, i + 1)

\* for action in dangerous_actions: if action in response_text.lower(): health -= 15
RECURSIVE DangerLoop(_, _, _)
DangerLoop(h, lowered, i) ==
    IF i > Len(dangerous_actions) THEN h
    ELSE DangerLoop(IF Contains(dangerous_actions[i], lowered) THEN h - 15 ELSE h,
                    lowered, i + 1)

\* ItemLoop that leaves the loop at the first match
RECURSIVE ItemLoopFirstMatch(_, _, _)
ItemLoopFirstMatch(gs, lowered, i) ==
    IF i > Len(inventory_items) THEN gs
    ELSE IF Contains(Marked(inventory_items[i]), lowered)
         THEN [gs EXCEPT !.found_item = inventory_items[i], !.choices_made = @ + 1]
         ELSE ItemLoopFirstMatch(gs, lowered, i + 1)

\* for item in inventory_items: if f"**{item}**" in response_text.lower(): ...
RECURSIVE ItemLoop(_, _, _)
ItemLoop(gs, lowered, i) ==
    IF i > Len(inventory_items) THEN gs
    ELSE ItemLoop(IF Contains(Marked(inventory_items[i]), lowered)
                  THEN [gs EXCEPT !.found_item = inventory_items[i],
                                  !.choices_made = @ + 1]
                  ELSE gs,
                  lowered, i + 1)

\* update_game_state without the clamp at 0
update_game_state_unclamped(gs, response_text) ==
    LET lowered == Lower(response_text)
        h == DangerLoop(gs.health, lowered, 1)
    IN  ItemLoop([gs EXCEPT !.health = h], lowered, 1)

update_game_state(gs, response_text) ==
    LET lowered == Lower(response_text)
        h == DangerLoop(gs.health, lowered, 1)
    IN  ItemLoop([gs EXCEPT !.health = Max(h, 0)], lowered, 1)

\* add_item_to_inventory that counts the pickup as a choice
add_item_to_inventory_counting(gs) ==
    LET item == gs.found_item
    IN  IF item # None /\ ~InList(item, gs.inventory)
        THEN [gs EXCEPT !.inventory = Append(@, item), !.found_item = None,
                        !.choices_made = @ + 1]
        ELSE gs

\* add_item_to_inventory without the membership test
add_item_to_inventory_unchecked(gs) ==
    LET item == gs.found_item
    IN  IF item # None
        THEN [gs EXCEPT !.inventory = Append(@, item), !.found_item = None]
        ELSE gs

add_item_to_inventory(gs) ==
    LET item == gs.found_item
    IN  IF item # None /\ ~InList(item, gs.inventory)
        THEN [gs EXCEPT !.inventory = Append(@, item), !.found_item = None]
        ELSE gs

\* use_health_potion without the membership test
use_health_potion_unchecked(gs) ==
    [gs EXCEPT !.health = Min(@ + 30, 100),
               !.inventory = IF InList("health_potion", @)
                             THEN RemoveFirst(@, "health_potion") ELSE @]

\* use_health_potion without the clamp at 100
use_health_potion_unclamped(gs) ==
    IF InList("health_potion", gs.inventory)
    THEN [gs EXCEPT !.health = @ + 30,
                    !.inventory = RemoveFirst(@, "health_potion")]
    ELSE gs

use_health_potion(gs) ==
    IF InList("health_potion", gs.inventory)
    THEN [gs EXCEPT !.health = Min(@ + 30, 100),
                    !.inventory = RemoveFirst(@, "health_potion")]
    ELSE gs

\* ', '.join(inventory)
RECURSIVE Join(_)
Join(list) ==
    IF Len(list) = 0 THEN <<>>
    ELSE IF Len(list) = 1 THEN ItemAtoms(list[1])
    ELSE ItemAtoms(list[1]) \o <<", ">> \o Join(Tail(list))

\* the f-string context of generate_story_response: the live game state
\* and the standing instructions
Context(gs) ==
    <<"\n", "Current game state:", "\n", "- Health: ", ToString(gs.health), "\n",
      "- Inventory: ">>
    \o (IF Len(gs.inventory) > 0 THEN Join(gs.inventory) ELSE <<"empty">>)
    \o <<"\n", "- Choices made: ", ToString(gs.choices_made), "\n",
         "Please continue the story and provide 2-3 clear choices for the player.">>

\* the argument of chat_session.send_message: the text of the last entry of
\* the history, a newline, the context
SentMessage(history, gs) ==
    history[Len(history)].text \o <<"\n">> \o Context(gs)

\* which message use_health_potion shows: st.success (TRUE) or st.error (FALSE)
use_health_potion_ok(gs) == InList("health_potion", gs.inventory)

\* IsDefeated with a strict comparison
IsDefeatedStrict(gs) == gs.health < 0

\* health <= 0: main() shows Game Over and returns before any other widget
IsDefeated(gs) == gs.health <= 0

-----------------------------------------------------------------------------
\* The session

\* ev: the widget event the last script run handled
\* sent: the message the last generator call was given
NoText == <<>>
Event(kind, text, response, ok) ==
    [kind |-> kind, text |-> text, response |-> response, ok |-> ok]

\* The state after the first script run: initialize_session_state, then the
\* introduction appended to both lists.
Init ==
    /\ game_state = InitialGameState
    /\ conversation_history = <<intro_message>>
    /\ messages = <<intro_message>>
    /\ ev = Event("init", NoText, NoText, TRUE)
    /\ sent = NoText

\* Reinitialize that resets game_state only
ReinitializeGameStateOnly(kind) ==
    /\ game_state' = InitialGameState
    /\ ev' = Event(kind, NoText, NoText, TRUE)
    /\ UNCHANGED <<conversation_history, messages, sent>>

\* session_state.clear(); st.rerun(): the next run initializes the session again
Reinitialize(kind) ==
    /\ game_state' = InitialGameState
    /\ conversation_history' = <<intro_message>>
    /\ messages' = <<intro_message>>
    /\ ev' = Event(kind, NoText, NoText, TRUE)
    /\ sent' = NoText

\* sidebar button "Restart Game"
Restart == Reinitialize("restart")

\* button "Start New Game", offered on the Game Over screen
StartNewGame ==
    /\ IsDefeated(game_state)
    /\ Reinitialize("new_game")

\* PickUp with the button shown whether or not an item is pending
PickUpAlwaysOffered ==
    /\ ~IsDefeated(game_state)
    /\ game_state' = add_item_to_inventory(game_state)
    /\ ev' = Event("pickup", NoText, NoText, TRUE)
    /\ UNCHANGED <<conversation_history, messages, sent>>

\* button "Pick up <item>"
PickUp ==
    /\ ~IsDefeated(game_state)
    /\ game_state.found_item # None
    /\ game_state' = add_item_to_inventory(game_state)
    /\ ev' = Event("pickup", NoText, NoText, TRUE)
    /\ UNCHANGED <<conversation_history, messages, sent>>

\* button "Use Health Potion"
UsePotion ==
    /\ ~IsDefeated(game_state)
    /\ InList("health_potion", game_state.inventory)
    /\ game_state' = use_health_potion(game_state)
    /\ ev' = Event("potion", NoText, NoText, TRUE)
    /\ UNCHANGED <<conversation_history, messages, sent>>

\* use_health_potion called in a live session whether or not the potion is
\* held: the test of line 188 that hides the button is not applied
RequestPotion ==
    /\ ~IsDefeated(game_state)
    /\ game_state' = use_health_potion(game_state)
    /\ ev' = Event("potion_request", NoText, NoText, use_health_potion_ok(game_state))
    /\ UNCHANGED <<conversation_history, messages, sent>>

\* Turn that stops after a failed generator call
TurnAbortOnFailure(user_input, response, ok) ==
    LET user_message == [role |-> "user", text |-> user_input]
        ai_message == [role |-> "model", text |-> response]
        counted == [game_state EXCEPT !.choices_made = @ + 1]
        said == Append(conversation_history, user_message)
        shown == Append(messages, user_message)
    IN  /\ ~IsDefeated(game_state)
        /\ Len(conversation_history) < 1 + 2 * MaxTurns
        /\ game_state' = IF ok THEN update_game_state(counted, response) ELSE counted
        /\ conversation_history' = IF ok THEN Append(said, ai_message) ELSE said
        /\ messages' = IF ok THEN Append(shown, ai_message) ELSE shown
        /\ sent' = SentMessage(said, counted)
        /\ ev' = Event("submit", user_input, response, ok)

\* Turn that keeps the history short: beyond four entries it drops the oldest
TurnWindowed(user_input, response, ok) ==
    LET user_message == [role |-> "user", text |-> user_input]
        ai_message == [role |-> "model", text |-> response]
        counted == [game_state EXCEPT !.choices_made = @ + 1]
        Window(log) == IF Len(log) > 4 THEN SubSeq(log, Len(log) - 3, Len(log)) ELSE log
    IN  /\ ~IsDefeated(game_state)
        /\ Len(conversation_history) < 1 + 2 * MaxTurns
        /\ game_state' = update_game_state(counted, response)
        /\ conversation_history' =
               Window(Append(Append(conversation_history, user_message), ai_message))
        /\ messages' = Window(Append(Append(messages, user_message), ai_message))
        /\ sent' = SentMessage(Append(conversation_history, user_message), counted)
        /\ ev' = Event("submit", user_input, response, ok)

\* Turn that counts the action only when the generator answers
TurnCountedOnSuccess(user_input, response, ok) ==
    LET user_message == [role |-> "user", text |-> user_input]
        ai_message == [role |-> "model", text |-> response]
        counted == IF ok THEN [game_state EXCEPT !.choices_made = @ + 1] ELSE game_state
    IN  /\ ~IsDefeated(game_state)
        /\ Len(conversation_history) < 1 + 2 * MaxTurns
        /\ game_state' = update_game_state(counted, response)
        /\ conversation_history' =
               Append(Append(conversation_history, user_message), ai_message)
        /\ messages' = Append(Append(messages, user_message), ai_message)
        /\ sent' = SentMessage(Append(conversation_history, user_message), counted)
        /\ ev' = Event("submit", user_input, response, ok)

\* Turn that records the message it sent, context included, as the player entry
TurnStoresSentMessage(user_input, response, ok) ==
    LET user_message == [role |-> "user", text |-> user_input]
        ai_message == [role |-> "model", text |-> response]
        counted == [game_state EXCEPT !.choices_made = @ + 1]
        message == SentMessage(Append(conversation_history, user_message), counted)
        stored == [role |-> "user", text |-> message]
    IN  /\ ~IsDefeated(game_state)
        /\ Len(conversation_history) < 1 + 2 * MaxTurns
        /\ game_state' = update_game_state(counted, response)
        /\ conversation_history' =
               Append(Append(conversation_history, stored), ai_message)
        /\ messages' = Append(Append(messages, user_message), ai_message)
        /\ sent' = message
        /\ ev' = Event("submit", user_input, response, ok)

\* Turn that appends the response before the action
TurnNarratorFirst(user_input, response, ok) ==
    LET user_message == [role |-> "user", text |-> user_input]
        ai_message == [role |-> "model", text |-> response]
        counted == [game_state EXCEPT !.choices_made = @ + 1]
    IN  /\ ~IsDefeated(game_state)
        /\ Len(conversation_history) < 1 + 2 * MaxTurns
        /\ game_state' = update_game_state(counted, response)
        /\ conversation_history' =
               Append(Append(conversation_history, ai_message), user_message)
        /\ messages' = Append(Append(messages, ai_message), user_message)
        /\ sent' = SentMessage(Append(conversation_history, user_message), counted)
        /\ ev' = Event("submit", user_input, response, ok)

\* Turn without the increment for the submitted action
TurnUncounted(user_input, response, ok) ==
    LET user_message == [role |-> "user", text |-> user_input]
        ai_message == [role |-> "model", text |-> response]
    IN  /\ ~IsDefeated(game_state)
        /\ Len(conversation_history) < 1 + 2 * MaxTurns
        /\ game_state' = update_game_state(game_state, response)
        /\ conversation_history' =
               Append(Append(conversation_history, user_message), ai_message)
        /\ messages' = Append(Append(messages, user_message), ai_message)
        /\ sent' = SentMessage(Append(conversation_history, user_message), game_state)
        /\ ev' = Event("submit", user_input, response, ok)

\* the body of "if user_input:" for the response generate_story_response returns
Turn(user_input, response, ok) ==
    LET user_message == [role |-> "user", text |-> user_input]
        ai_message == [role |-> "model", text |-> response]
        counted == [game_state EXCEPT !.choices_made = @ + 1]
    IN  /\ ~IsDefeated(game_state)
        /\ Len(conversation_history) < 1 + 2 * MaxTurns
        /\ game_state' = update_game_state(counted, response)
        /\ conversation_history' =
               Append(Append(conversation_history, user_message), ai_message)
        /\ messages' = Append(Append(messages, user_message), ai_message)
        /\ sent' = SentMessage(Append(conversation_history, user_message), counted)
        /\ ev' = Event("submit", user_input, response, ok)

\* chat input, the generator answers
SubmitOk == \E t \in PlayerTexts, r \in Responses : Turn(t, r, TRUE)

\* chat input, the generator raises: the except branch returns the fallback
SubmitFail == \E t \in PlayerTexts : Turn(t, FallbackText, FALSE)

Next ==
    \/ Restart
    \/ StartNewGame
    \/ PickUp
    \/ UsePotion
    \/ SubmitOk
    \/ SubmitFail

Spec == Init /\ [][Next]_vars

\* The session with use_health_potion reachable on both of its branches.
NextDirect ==
    \/ Next
    \/ RequestPotion

SpecDirect == Init /\ [][NextDirect]_vars

-----------------------------------------------------------------------------
\* Properties

\* the danger keywords that occur in the lower-cased text
KeywordsIn(text) ==
    {k \in {dangerous_actions[i] : i \in 1..Len(dangerous_actions)} :
        Contains(k, Lower(text))}

\* the catalog positions of the items whose marked form occurs in the
\* lower-cased text
MarkedIn(text) ==
    {i \in 1..Len(inventory_items) : Contains(Marked(inventory_items[i]), Lower(text))}

InitialLog == <<intro_message>>

\* C1: in every reachable state health is an integer between 0 and 100.
HealthInRange == game_state.health \in 0..100

\* a single turn from full health whose damage (120) exceeds the health left
HealthClampedAtZero ==
    /\ ev.kind = "submit"
    /\ Len(conversation_history) = 3
    /\ Cardinality(KeywordsIn(ev.response)) = 8
    /\ game_state.health = 0

\* C2: interpreting a response sets health to max(h - 15*N, 0), N the number
\* of distinct danger keywords that occur in the lower-cased response.
DamageIsFifteenPerKeyword ==
    [][ev'.kind = "submit" =>
         game_state'.health =
             Max(game_state.health - 15 * Cardinality(KeywordsIn(ev'.response)), 0)]_vars

\* a response in which one keyword occurs twice has cost 15
RepeatedKeywordCountedOnce ==
    /\ ev.kind = "submit"
    /\ Occurrences(<<"explore">>, Lower(ev.response)) = 2
    /\ Len(conversation_history) = 3
    /\ game_state.health = 85

\* C3: once health is 0 the only step that changes the session is a restart,
\* which puts it back into its initial state.
DefeatedIsTerminal ==
    [][game_state.health = 0 =>
         /\ ev'.kind \in {"restart", "new_game"}
         /\ game_state' = InitialGameState
         /\ conversation_history' = InitialLog
         /\ messages' = InitialLog]_vars

\* defeated by a response, with a pickup pending and turns left
DefeatedWithPickupPending ==
    /\ ev.kind = "submit"
    /\ game_state.health = 0
    /\ game_state.found_item # None
    /\ Len(conversation_history) < 1 + 2 * MaxTurns


SetMin(S) == CHOOSE x \in S : \A y \in S : x <= y
SetMax(S) == CHOOSE x \in S : \A y \in S : x >= y

\* C4 as stated: of several marked items the first of the catalog is the
\* found item.
FoundItemIsFirstInCatalog ==
    [][(ev'.kind = "submit" /\ MarkedIn(ev'.response) # {}) =>
         game_state'.found_item = inventory_items[SetMin(MarkedIn(ev'.response))]]_vars

\* C4 amended: a turn leaves one found item at most; of several marked items
\* the last of the catalog is the found item, wherever it stands in the text,
\* and a response that marks none leaves found_item as it was.
FoundItemIsLastInCatalog ==
    [][ev'.kind = "submit" =>
         game_state'.found_item =
             IF MarkedIn(ev'.response) = {} THEN game_state.found_item
             ELSE inventory_items[SetMax(MarkedIn(ev'.response))]]_vars

\* key, map and sword marked in this order of the text: map is found
ThreeMarkedMapFound ==
    /\ ev.kind = "submit"
    /\ MarkedIn(ev.response) = {2, 3, 4}
    /\ game_state.found_item = "map"

\* C5 as stated: found_item is None or a catalog item that is not in inventory.
FoundItemNotInInventory ==
    \/ game_state.found_item = None
    \/ /\ \E i \in 1..Len(inventory_items) : inventory_items[i] = game_state.found_item
       /\ ~InList(game_state.found_item, game_state.inventory)

\* C6 as stated: a failed turn adds the player entry to the log and nothing else.
FailedTurnAppendsOnlyPlayer ==
    [][(ev'.kind = "submit" /\ ~ev'.ok) =>
         LET user_message == [role |-> "user", text |-> ev'.text]
         IN  /\ conversation_history' = Append(conversation_history, user_message)
             /\ messages' = Append(messages, user_message)]_vars

\* C6 amended: a failed turn adds the player entry and after it one narrator
\* entry that holds the fixed fallback text.
FailedTurnAppendsPlayerAndFallback ==
    [][(ev'.kind = "submit" /\ ~ev'.ok) =>
         LET user_message == [role |-> "user", text |-> ev'.text]
             fallback == [role |-> "model", text |-> FallbackText]
         IN  /\ conversation_history' =
                    conversation_history \o <<user_message, fallback>>
             /\ messages' = messages \o <<user_message, fallback>>]_vars

\* a failed turn after a successful one
FailedSecondTurn ==
    /\ ev.kind = "submit"
    /\ ~ev.ok
    /\ Len(conversation_history) = 5
    /\ conversation_history[3].text # FallbackText
    /\ conversation_history[5] = [role |-> "model", text |-> FallbackText]

\* C7: a failed turn leaves health, inventory and found_item as they were.
FailedTurnKeepsGameState ==
    [][(ev'.kind = "submit" /\ ~ev'.ok) =>
         /\ game_state'.health = game_state.health
         /\ game_state'.inventory = game_state.inventory
         /\ game_state'.found_item = game_state.found_item]_vars

\* a failed turn with damage taken, an item held and a pickup pending
FailedTurnWithPendingItem ==
    /\ ev.kind = "submit"
    /\ ~ev.ok
    /\ game_state.health = 85
    /\ game_state.inventory = <<"potion">>
    /\ game_state.found_item = "map"

\* C8 as stated: a successful turn adds 1 to choices_made, and 1 more when
\* the response marks any item.
TurnCountsOneDiscovery ==
    [][(ev'.kind = "submit" /\ ev'.ok) =>
         game_state'.choices_made =
             game_state.choices_made + 1
                 + (IF MarkedIn(ev'.response) = {} THEN 0 ELSE 1)]_vars

\* C8 amended: a successful turn adds 1 to choices_made for the action and 1
\* for each catalog item whose marked form occurs in the response.
TurnCountsEveryMarkedItem ==
    [][(ev'.kind = "submit" /\ ev'.ok) =>
         game_state'.choices_made =
             game_state.choices_made + 1 + Cardinality(MarkedIn(ev'.response))]_vars

\* the first turn, three items marked: choices_made is 4
ThreeMarkedFourChoices ==
    /\ ev.kind = "submit"
    /\ ev.ok
    /\ Len(conversation_history) = 3
    /\ Cardinality(MarkedIn(ev.response)) = 3
    /\ game_state.choices_made = 4

\* C9 as stated: after a pickup the item is in inventory and found_item is None.
PickupMovesFoundItem ==
    [][ev'.kind = "pickup" =>
         /\ InList(game_state.found_item, game_state'.inventory)
         /\ game_state'.found_item = None]_vars

\* C10 as stated: a pickup adds 1 to choices_made.
PickupCountsAsChoice ==
    [][ev'.kind = "pickup" =>
         game_state'.choices_made = game_state.choices_made + 1]_vars

\* C10 amended: a pickup leaves choices_made as it was.
PickupKeepsChoices ==
    [][ev'.kind = "pickup" =>
         game_state'.choices_made = game_state.choices_made]_vars

\* the found potion picked up after the first turn: one action, one discovery
PotionPickedUpTwoChoices ==
    /\ ev.kind = "pickup"
    /\ game_state.inventory = <<"potion">>
    /\ game_state.found_item = None
    /\ game_state.choices_made = 2


HeldPotion(gs) == InList("health_potion", gs.inventory)

\* C11: a potion-use request without health_potion in inventory ends in the
\* error outcome and leaves game_state and the log as they were.
PotionRequestWithoutPotionIsError ==
    [][(ev'.kind = "potion_request" /\ ~HeldPotion(game_state)) =>
         /\ ~ev'.ok
         /\ game_state' = game_state
         /\ conversation_history' = conversation_history
         /\ messages' = messages]_vars

\* a refused request with damage taken, an item held and a pickup pending
PotionRefusedInLiveGame ==
    /\ ev.kind = "potion_request"
    /\ ~ev.ok
    /\ game_state.health = 85
    /\ game_state.inventory = <<"potion">>
    /\ game_state.found_item = "map"


\* list with every entry equal to x left out
Without(list, x) == SelectSeq(list, LAMBDA e : e # x)

\* C12: using a held health potion sets health to min(health + 30, 100) and
\* takes health_potion out of inventory, the other items staying as they were.
PotionHealsThirtyAndIsConsumed ==
    [][ev'.kind = "potion" =>
         /\ HeldPotion(game_state)
         /\ game_state'.health =
                (IF game_state.health + 30 <= 100 THEN game_state.health + 30 ELSE 100)
         /\ ~HeldPotion(game_state')
         /\ game_state'.inventory = Without(game_state.inventory, "health_potion")]_vars

\* a potion used at health 85 with another item held: health is 100, not 115
PotionUseClamped ==
    /\ ev.kind = "potion"
    /\ Len(conversation_history) = 5
    /\ conversation_history[5].text = <<"Explore", "d", " ", "explore", " ", "**", "potion", "**">>
    /\ game_state.inventory = <<"potion">>
    /\ game_state.health = 100

\* C13: a restart, from the Game Over screen or not, leaves health 100, an
\* empty inventory, choices_made 0, no found item and a log that holds the
\* introduction only.
RestartGivesInitialState ==
    [][ev'.kind \in {"restart", "new_game"} =>
         /\ game_state'.health = 100
         /\ game_state'.inventory = <<>>
         /\ game_state'.choices_made = 0
         /\ game_state'.found_item = None
         /\ conversation_history' = <<[role |-> "model", text |-> IntroText]>>
         /\ messages' = <<[role |-> "model", text |-> IntroText]>>]_vars

\* a new game started from the Game Over screen
NewGameAfterDefeat ==
    /\ ev.kind = "new_game"
    /\ game_state.health = 100
    /\ Len(conversation_history) = 1

\* C14: no item identifier occurs twice in inventory.
InventoryHasNoDuplicates ==
    \A i, j \in 1..Len(game_state.inventory) :
        game_state.inventory[i] = game_state.inventory[j] => i = j

\* an item found again and its pickup confirmed while it is held
PickupOfHeldItem ==
    /\ ev.kind = "pickup"
    /\ game_state.found_item # None
    /\ InList(game_state.found_item, game_state.inventory)

IsPrefix(a, b) == Len(a) <= Len(b) /\ SubSeq(b, 1, Len(a)) = a

\* C15: the first entry of the log is the introduction, and a step that is no
\* restart leaves the log as it was or extends it at its end.
LogIsAppendOnly ==
    /\ [](/\ conversation_history[1] = [role |-> "model", text |-> IntroText]
          /\ messages[1] = [role |-> "model", text |-> IntroText])
    /\ [][ev'.kind \notin {"restart", "new_game"} =>
            /\ IsPrefix(conversation_history, conversation_history')
            /\ IsPrefix(messages, messages')]_vars

\* three turns in the log, the second of them a failed one
LogOfThreeTurns ==
    /\ Len(conversation_history) = 7
    /\ Len(messages) = 7
    /\ conversation_history[5].text = FallbackText
    /\ ev.kind = "pickup"


\* C16: after a failed generator call or a refused potion request the game
\* is not over and, while the model's MaxTurns turns are not used up, a
\* further action is accepted and starts a turn.
ContinuableAfterError ==
    (ev.kind \in {"submit", "potion_request"} /\ ~ev.ok) =>
        /\ game_state.health > 0
        /\ (Len(conversation_history) < 1 + 2 * MaxTurns) =>
               (ENABLED SubmitOk)

\* a refused potion request right after a failed turn of a damaged player
RefusedAfterFailedTurn ==
    /\ ev.kind = "potion_request"
    /\ ~ev.ok
    /\ Len(conversation_history) = 5
    /\ conversation_history[5].text = FallbackText
    /\ game_state.health = 70

\* C17: between restarts choices_made never decreases, and a submitted
\* action adds 1 to it, next to the discoveries of the response, whether the
\* generator answers or fails; a failed turn adds exactly 1.
ChoicesCountEverySubmission ==
    [][
        /\ (ev'.kind \notin {"restart", "new_game"}) =>
               (game_state'.choices_made >= game_state.choices_made)
        /\ (ev'.kind = "submit") =>
               (game_state'.choices_made - Cardinality(MarkedIn(ev'.response))
                   = game_state.choices_made + 1)
        /\ (ev'.kind = "submit" /\ ~ev'.ok) =>
               (game_state'.choices_made = game_state.choices_made + 1)
      ]_vars

\* two failed turns from the start: choices_made is 2
TwoFailedTurnsTwoChoices ==
    /\ ev.kind = "submit"
    /\ ~ev.ok
    /\ Len(conversation_history) = 5
    /\ conversation_history[3].text = FallbackText
    /\ game_state.choices_made = 2

\* C18: the summary block is in no entry of the log, and the player entry a
\* turn appends holds the submitted text, not the message that was sent.
SummaryIsNotStored ==
    /\ [](\A i \in 1..Len(conversation_history) :
             /\ ~Contains(<<"Current game state:">>, conversation_history[i].text)
             /\ ~Contains(<<"Current game state:">>, messages[i].text))
    /\ [][ev'.kind = "submit" =>
            /\ Contains(<<"Current game state:">>, sent')
            /\ conversation_history'[Len(conversation_history) + 1]
                   = [role |-> "user", text |-> ev'.text]
            /\ messages'[Len(messages) + 1] = [role |-> "user", text |-> ev'.text]]_vars

\* a call whose summary lists two held items
SummaryWithTwoItemsSent ==
    /\ ev.kind = "submit"
    /\ Contains(<<"- Inventory: ", "potion", ", ", "map", "\n">>, sent)
    /\ conversation_history[Len(conversation_history) - 1].text = ev.text

\* C19: a pickup runs only from a state in which an item is pending and the
\* game is not over.
PickupOnlyWhenOffered ==
    [][ev'.kind = "pickup" =>
         /\ game_state.found_item # None
         /\ game_state.health > 0]_vars

\* the map picked up into an empty inventory
MapPickedUp ==
    /\ ev.kind = "pickup"
    /\ game_state.inventory = <<"map">>
    /\ game_state.found_item = None

\* C20: the log has odd length and its roles alternate, narrator first and
\* last; a submitted action, answered or failed, makes it two entries
\* longer, and a restart makes it one entry long.
RolesAlternate ==
    /\ [](/\ Len(conversation_history) % 2 = 1
          /\ \A i \in 1..Len(conversation_history) :
                 conversation_history[i].role = (IF i % 2 = 1 THEN "model" ELSE "user"))
    /\ [][
           /\ (ev'.kind = "submit") =>
                  (Len(conversation_history') = Len(conversation_history) + 2)
           /\ (ev'.kind \in {"restart", "new_game"}) =>
                  (Len(conversation_history') = 1)
           /\ (ev'.kind \in {"pickup", "potion"}) =>
                  (Len(conversation_history') = Len(conversation_history))
         ]_vars

\* three turns, the first failed and the last answered
FailedThenAnsweredTurns ==
    /\ ev.kind = "submit"
    /\ ev.ok
    /\ Len(conversation_history) = 7
    /\ conversation_history[3].text = FallbackText
    /\ conversation_history[6].role = "user"

====
